---- MODULE Spec2Model ----
(***************************************************************************)
(* State-machine model of stock-ticker.py: the quote store and its fetch   *)
(* cycle (StockStore), the persisted settings (Config), the scrolling      *)
(* overlay window (TickerWindow) with its timers, and the tiling loop of   *)
(* the renderer.                                                           *)
(***************************************************************************)
EXTENDS Integers, Sequences, FiniteSets, TLC

(***************************************************************************)
(* Bounds of the model.                                                    *)
(***************************************************************************)
\* number of fetch threads that can be alive at once (the program spawns one
\* per trigger, without limit)
MaxThreads == 2

\* the scroll offset is followed down to -MaxScroll (half pixels); it has no
\* lower limit while nothing has been drawn yet
MaxScroll == 30

\* pixel width Pango can report for one piece of text: 1..MaxTextWidth
MaxTextWidth == 2

\* the monitor's width (geom.width) and the largest scroll offset, either
\* way from 0, that the tiling loop is run on
ScreenWidth == 6
MaxOffset == 9

\* a chart's adjclose array: up to MaxCloses entries, each None or a close
\* in 0..MaxClose
MaxCloses == 3
MaxClose == 2

\* a config file's JSON object: up to MaxKeys keys, each with a value in
\* 1..MaxValue
MaxKeys == 2
MaxValue == 2

\* GLib source ids are handed out up to MaxSourceId
MaxSourceId == 9

(***************************************************************************)
(* Program constants.                                                      *)
(***************************************************************************)
MAX_RETRIES == 3

\* Python's None inside the adjclose array (closes are never negative)
NULL == -1

\* the GTK main-loop thread, as a holder of StockStore.lock
UiThread == 0

Threads == 1..MaxThreads

\* symbol lists the configuration can hold (cfg.symbols); order matters
SymbolLists == { <<"AAPL", "MSFT">>, <<"MSFT", "AAPL">>, <<"AAPL">> }

\* the symbol list of the two-thread runs (DEFAULTS["symbols"], cut to two)
DefaultSymbols == << "AAPL", "MSFT" >>

\* what one HTTP request can come back with: a rate limit, a server error, a
\* chart with one close, a chart with two closes around a null
FewResponses ==
    { [status |-> 429, closes |-> << >>],
      [status |-> 500, closes |-> << >>],
      [status |-> 200, closes |-> << 2 >>],
      [status |-> 200, closes |-> << 1, NULL, 2 >>] }

\* the same, and a second chart, whose quote differs from the first one's
CycleResponses == FewResponses \cup { [status |-> 200, closes |-> << 2, 1 >>] }

VARIABLES
    \* ---- StockStore and its fetch threads
    upstream,        \* the responses the quote provider can give (never changes)
    cfg_symbols,     \* cfg.symbols
    quotes,          \* StockStore.quotes, the shared snapshot
    lock,            \* StockStore.lock: the set of its holders (empty or one)
    pc,              \* per fetch thread: where it is in _do_fetch / fetch
    attempt,         \* per fetch thread: loop variable of fetch
    idx,             \* per fetch thread: position of _fetch_all in cfg.symbols
    new_quotes,      \* per fetch thread: the local list of _fetch_all / fetch
    exc,             \* per fetch thread: the exception caught by fetch ("" if none)
    ui_pc,           \* the render pass inside get_quotes
    ui_quotes,       \* what get_quotes last returned to on_draw
    \* ---- history of the fetch cycle of one observed thread
    before,          \* the snapshot when the cycle began
    waits,           \* retry-delay sleeps taken in the cycle
    tries,           \* outcome of every finished attempt of the cycle
    dropped,         \* symbols that _fetch_all skipped in the current attempt
    \* ---- TickerWindow: the scroll animation (lengths in half pixels)
    scroll_x,        \* self.scroll_x
    content_width,   \* self.content_width
    scroll_speed,    \* cfg.scroll_speed
    item_gap,        \* cfg.item_gap
    last_ui,         \* the branch the main loop's last callback took
    \* ---- on_draw's tiling loop, run on its own
    tile_scroll,     \* self.scroll_x as on_draw finds it
    tile_total,      \* total_w
    tile_x,          \* x, the draw cursor
    tile_drawn,      \* the x of every _draw_items call so far
    tile_pc,         \* "layout", "loop" or "done"
    \* ---- one response taken through _fetch_one and _draw_items
    q_resp,          \* the HTTP response
    q_result,        \* what _fetch_one returned
    q_color,         \* the colour _draw_items picks for the quote
    q_arrow,         \* the arrow glyph of its price text
    q_pc,            \* "input", "fetched", "skipped" or "drawn"
    \* ---- Config() and its load()
    cfg_file,        \* the config file as load finds it
    cfg_attr,        \* what each name resolves to on the Config object
    cfg_todo,        \* the items of the loaded dict still to go through
    cfg_pc,          \* "init", "items", "loaded" or "raised"
    \* ---- TickerWindow and the GLib main loop's sources
    sources,         \* the sources attached to the main context
    anim_source,     \* self._anim_source (0 is None)
    refresh_source,  \* self._refresh_source (0 is None)
    next_source,     \* the id GLib gives the next source
    ticker_font_size,    \* cfg.ticker_font_size
    update_interval_min, \* cfg.update_interval_min
    fps,             \* cfg.fps
    win_pc           \* "new" before TickerWindow.__init__, then "running"

fetch_vars == << upstream, cfg_symbols, quotes, lock, pc, attempt, idx, new_quotes, exc,
                 ui_pc, ui_quotes >>
hist_vars == << before, waits, tries, dropped >>

scroll_vars == << scroll_x, content_width, scroll_speed, item_gap, last_ui >>

tile_vars == << tile_scroll, tile_total, tile_x, tile_drawn, tile_pc >>

quote_vars == << q_resp, q_result, q_color, q_arrow, q_pc >>
config_vars == << cfg_file, cfg_attr, cfg_todo, cfg_pc >>

timer_vars == << sources, anim_source, refresh_source, next_source, ticker_font_size,
                 update_interval_min, fps, win_pc >>

vars == << fetch_vars, hist_vars, scroll_vars, tile_vars, quote_vars, config_vars,
           timer_vars >>

(***************************************************************************)
(* StockStore._fetch_one: the quote of one symbol from one HTTP response.  *)
(***************************************************************************)
NotNone(closes) == SelectSeq(closes, LAMBDA c : c # NULL)

NoQuote == [symbol |-> "", price |-> 0, change |-> 0, pct |-> << 0, 1 >>, up |-> FALSE]

\* pct is change / prev * 100, kept exact as << numerator, denominator >>
MakeQuote(symbol, cur, prev) ==
    [symbol |-> symbol, price |-> cur, change |-> cur - prev,
     pct    |-> IF prev # 0 THEN << (cur - prev) * 100, prev >> ELSE << 0, 1 >>,
     up     |-> (cur - prev) >= 0]

\* MUTANT of fetch_one: a symbol with fewer than two closes gets a placeholder
\* entry instead of being left out
fetch_one_placeholder(symbol, resp) ==
    IF resp.status = 429 THEN [tag |-> "rate_limited", quote |-> NoQuote]
    ELSE IF resp.status # 200 THEN [tag |-> "raise", quote |-> NoQuote]
    ELSE LET closes == NotNone(resp.closes)
             n == Len(closes)
         IN  IF n < 2 THEN [tag |-> "quote", quote |-> NoQuote]
             ELSE [tag |-> "quote", quote |-> MakeQuote(symbol, closes[n], closes[n - 1])]

fetch_one(symbol, resp) ==
    IF resp.status = 429 THEN [tag |-> "rate_limited", quote |-> NoQuote]
    ELSE IF resp.status # 200 THEN [tag |-> "raise", quote |-> NoQuote]
    ELSE LET closes == NotNone(resp.closes)
             n == Len(closes)
         IN  IF n < 2 THEN [tag |-> "none", quote |-> NoQuote]
             ELSE [tag |-> "quote", quote |-> MakeQuote(symbol, closes[n], closes[n - 1])]

(***************************************************************************)
(* The fetch thread: TickerWindow._do_fetch running StockStore.fetch.      *)
(***************************************************************************)
\* MUTANT of begin_fetch: fetch takes the lock before its first request
begin_fetch_locked(t) ==
    /\ pc[t] = "idle"
    /\ lock = {}
    /\ lock' = {t}
    /\ pc' = [pc EXCEPT ![t] = "request"]
    /\ attempt' = [attempt EXCEPT ![t] = 1]
    /\ idx' = [idx EXCEPT ![t] = 1]
    /\ new_quotes' = [new_quotes EXCEPT ![t] = << >>]
    /\ exc' = [exc EXCEPT ![t] = ""]
    /\ UNCHANGED << upstream, cfg_symbols, quotes, ui_pc, ui_quotes >>

\* Thread(target=self._do_fetch).start(): fetch enters its loop with
\* attempt = 1 and _fetch_all starts an empty list
begin_fetch(t) ==
    /\ pc[t] = "idle"
    /\ pc' = [pc EXCEPT ![t] = "request"]
    /\ attempt' = [attempt EXCEPT ![t] = 1]
    /\ idx' = [idx EXCEPT ![t] = 1]
    /\ new_quotes' = [new_quotes EXCEPT ![t] = << >>]
    /\ exc' = [exc EXCEPT ![t] = ""]
    /\ UNCHANGED << upstream, cfg_symbols, quotes, lock, ui_pc, ui_quotes >>

\* MUTANT of attempt_raised: the last failure resets the snapshot
attempt_raised_clears(t, e) ==
    /\ exc' = [exc EXCEPT ![t] = e]
    /\ pc' = [pc EXCEPT ![t] = IF attempt[t] < MAX_RETRIES THEN "retry_sleep" ELSE "failed"]
    /\ new_quotes' = [new_quotes EXCEPT ![t] = << >>]
    /\ idx' = [idx EXCEPT ![t] = 1]
    /\ quotes' = IF attempt[t] < MAX_RETRIES THEN quotes ELSE << >>
    /\ UNCHANGED attempt

\* the except branch of fetch: log, then sleep RETRY_DELAY if an attempt is
\* left, else fall out of the loop to "all attempts failed"
attempt_raised(t, e) ==
    /\ exc' = [exc EXCEPT ![t] = e]
    /\ pc' = [pc EXCEPT ![t] = IF attempt[t] < MAX_RETRIES THEN "retry_sleep" ELSE "failed"]
    /\ new_quotes' = [new_quotes EXCEPT ![t] = << >>]
    /\ idx' = [idx EXCEPT ![t] = 1]
    /\ UNCHANGED << attempt, quotes >>

\* MUTANT of fetch_all_step: each quote is appended to the shared list itself
fetch_all_step_shared(t) ==
    /\ pc[t] = "request"
    /\ idx[t] <= Len(cfg_symbols)
    /\ \E resp \in upstream :
          LET q == fetch_one(cfg_symbols[idx[t]], resp) IN
          CASE q.tag = "none" ->
                  /\ idx' = [idx EXCEPT ![t] = @ + 1]
                  /\ UNCHANGED << pc, attempt, new_quotes, exc, quotes >>
            [] q.tag = "rate_limited" -> attempt_raised(t, "rate limited (429)")
            [] q.tag = "raise" -> attempt_raised(t, "http error")
            [] q.tag = "quote" ->
                  /\ new_quotes' = [new_quotes EXCEPT ![t] = Append(@, q.quote)]
                  /\ quotes' = Append(quotes, q.quote)
                  /\ idx' = [idx EXCEPT ![t] = @ + 1]
                  /\ UNCHANGED << pc, attempt, exc >>
    /\ UNCHANGED << upstream, cfg_symbols, lock, ui_pc, ui_quotes >>

\* one iteration of the loop of _fetch_all: request the symbol, then skip it
\* (None), raise (429), or append the quote and sleep 0.5 s; an exception of
\* _fetch_one goes up to fetch unchanged
fetch_all_step(t) ==
    /\ pc[t] = "request"
    /\ idx[t] <= Len(cfg_symbols)
    /\ \E resp \in upstream :
          LET q == fetch_one(cfg_symbols[idx[t]], resp) IN
          CASE q.tag = "none" ->
                  /\ idx' = [idx EXCEPT ![t] = @ + 1]
                  /\ UNCHANGED << pc, attempt, new_quotes, exc, quotes >>
            [] q.tag = "rate_limited" -> attempt_raised(t, "rate limited (429)")
            [] q.tag = "raise" -> attempt_raised(t, "http error")
            [] q.tag = "quote" ->
                  /\ new_quotes' = [new_quotes EXCEPT ![t] = Append(@, q.quote)]
                  /\ idx' = [idx EXCEPT ![t] = @ + 1]
                  /\ UNCHANGED << pc, attempt, exc, quotes >>
    /\ UNCHANGED << upstream, cfg_symbols, lock, ui_pc, ui_quotes >>

\* MUTANT of fetch_all_return: the list goes on to the locked assignment
\* whether it is empty or not
fetch_all_return_unguarded(t) ==
    /\ pc[t] = "request"
    /\ idx[t] > Len(cfg_symbols)
    /\ pc' = [pc EXCEPT ![t] = "acquire"]
    /\ UNCHANGED << attempt, idx, new_quotes >>
    /\ UNCHANGED << upstream, cfg_symbols, quotes, lock, exc, ui_pc, ui_quotes >>

\* _fetch_all returns its list to fetch: a non-empty list goes on to the
\* locked assignment; an empty one falls through "if new_quotes" to the next
\* iteration of the attempt loop, with no sleep
fetch_all_return(t) ==
    /\ pc[t] = "request"
    /\ idx[t] > Len(cfg_symbols)
    /\ IF new_quotes[t] # << >>
         THEN /\ pc' = [pc EXCEPT ![t] = "acquire"]
              /\ UNCHANGED << attempt, idx, new_quotes >>
         ELSE IF attempt[t] < MAX_RETRIES
                THEN /\ attempt' = [attempt EXCEPT ![t] = @ + 1]
                     /\ idx' = [idx EXCEPT ![t] = 1]
                     /\ UNCHANGED << pc, new_quotes >>
                ELSE /\ pc' = [pc EXCEPT ![t] = "failed"]
                     /\ idx' = [idx EXCEPT ![t] = 1]
                     /\ UNCHANGED << attempt, new_quotes >>
    /\ UNCHANGED << upstream, cfg_symbols, quotes, lock, exc, ui_pc, ui_quotes >>

\* "with self.lock:" entered by the fetch thread
fetch_lock(t) ==
    /\ pc[t] = "acquire"
    /\ lock = {}
    /\ lock' = {t}
    /\ pc' = [pc EXCEPT ![t] = "assign"]
    /\ UNCHANGED << upstream, cfg_symbols, quotes, attempt, idx, new_quotes, exc, ui_pc, ui_quotes >>

\* self.quotes = new_quotes, the lock released, the count logged, return
fetch_publish(t) ==
    /\ pc[t] = "assign"
    /\ quotes' = new_quotes[t]
    /\ lock' = lock \ {t}
    /\ pc' = [pc EXCEPT ![t] = "done"]
    /\ UNCHANGED << upstream, cfg_symbols, attempt, idx, new_quotes, exc, ui_pc, ui_quotes >>

\* time.sleep(RETRY_DELAY) is over: the next attempt calls _fetch_all again
retry_wake(t) ==
    /\ pc[t] = "retry_sleep"
    /\ pc' = [pc EXCEPT ![t] = "request"]
    /\ attempt' = [attempt EXCEPT ![t] = @ + 1]
    /\ idx' = [idx EXCEPT ![t] = 1]
    /\ new_quotes' = [new_quotes EXCEPT ![t] = << >>]
    /\ exc' = [exc EXCEPT ![t] = ""]
    /\ UNCHANGED << upstream, cfg_symbols, quotes, lock, ui_pc, ui_quotes >>

\* fetch has returned: _do_fetch queues a redraw and the thread ends
do_fetch_return(t) ==
    /\ pc[t] \in {"done", "failed"}
    /\ pc' = [pc EXCEPT ![t] = "idle"]
    /\ attempt' = [attempt EXCEPT ![t] = 0]
    /\ idx' = [idx EXCEPT ![t] = 1]
    /\ new_quotes' = [new_quotes EXCEPT ![t] = << >>]
    /\ exc' = [exc EXCEPT ![t] = ""]
    /\ UNCHANGED << upstream, cfg_symbols, quotes, lock, ui_pc, ui_quotes >>

fetch_thread(t) ==
    \/ begin_fetch(t)
    \/ fetch_all_step(t)
    \/ fetch_all_return(t)
    \/ fetch_lock(t)
    \/ fetch_publish(t)
    \/ retry_wake(t)
    \/ do_fetch_return(t)

(***************************************************************************)
(* StockStore.get_quotes, called by on_draw on the main loop.              *)
(***************************************************************************)
get_quotes_lock ==
    /\ ui_pc = "idle"
    /\ lock = {}
    /\ lock' = {UiThread}
    /\ ui_pc' = "copy"
    /\ UNCHANGED << upstream, cfg_symbols, quotes, pc, attempt, idx, new_quotes, exc, ui_quotes >>

get_quotes_copy ==
    /\ ui_pc = "copy"
    /\ ui_quotes' = quotes
    /\ lock' = lock \ {UiThread}
    /\ ui_pc' = "idle"
    /\ UNCHANGED << upstream, cfg_symbols, quotes, pc, attempt, idx, new_quotes, exc >>


(***************************************************************************)
(* TickerWindow: on_tick, on_draw's layout pass, the scroll-speed menu.    *)
(* Lengths are in half pixels, so that the menu's 0.5 px speed is 1.       *)
(***************************************************************************)
\* the "Scroll Speed" menu, its entries Slow (0.5 px/tick) and Medium (1 px)
ScrollSpeeds == {1, 2}

\* cfg.item_gap, in half pixels
ItemGaps == {2}

\* what layout.get_pixel_size() can report for one text, in half pixels
TextWidths == {2 * w : w \in 1..MaxTextWidth}

RECURSIVE SumSeq(_)
SumSeq(ws) == IF ws = << >> THEN 0 ELSE Head(ws) + SumSeq(Tail(ws))

\* _measure_content: the timestamp and every quote's symbol and price text,
\* each followed by cfg.item_gap; ts_w, sym_w[i], price_w[i] are the widths
\* Pango reports
measure_content(ts_w, sym_w, price_w, gap) ==
    (ts_w + gap) + SumSeq([i \in 1..Len(sym_w) |-> sym_w[i] + price_w[i] + gap])

\* MUTANT of on_tick: the wrap is taken only once the offset is past
\* -content_width
on_tick_late_wrap ==
    /\ scroll_x - scroll_speed >= -MaxScroll
    /\ LET x == scroll_x - scroll_speed IN
         IF content_width > 0 /\ x < -content_width
           THEN scroll_x' = x + content_width /\ last_ui' = "wrap"
           ELSE scroll_x' = x /\ last_ui' = "tick"
    /\ UNCHANGED << content_width, scroll_speed, item_gap >>
    /\ UNCHANGED fetch_vars

\* on_tick: one animation step, with at most one wrap
on_tick ==
    /\ scroll_x - scroll_speed >= -MaxScroll
    /\ LET x == scroll_x - scroll_speed IN
         IF content_width > 0 /\ x <= -content_width
           THEN scroll_x' = x + content_width /\ last_ui' = "wrap"
           ELSE scroll_x' = x /\ last_ui' = "tick"
    /\ UNCHANGED << content_width, scroll_speed, item_gap >>
    /\ UNCHANGED fetch_vars

\* on_draw up to the tiling loop: get_quotes (the lock taken and released),
\* the loading text for an empty snapshot, else content_width := total_w
on_draw ==
    /\ lock = {}
    /\ IF quotes = << >>
         THEN /\ last_ui' = "loading"
              /\ UNCHANGED content_width
         ELSE /\ content_width' \in
                   { measure_content(ts_w, sym_w, price_w, item_gap) :
                       ts_w \in TextWidths,
                       sym_w \in [1..Len(quotes) -> TextWidths],
                       price_w \in [1..Len(quotes) -> TextWidths] }
              /\ last_ui' = "draw"
    /\ UNCHANGED << scroll_x, scroll_speed, item_gap >>
    /\ UNCHANGED fetch_vars

\* _on_scroll_speed: the menu sets cfg.scroll_speed and saves the config
on_scroll_speed(val) ==
    /\ scroll_speed' = val
    /\ last_ui' = "speed"
    /\ UNCHANGED << scroll_x, content_width, item_gap >>
    /\ UNCHANGED fetch_vars


(***************************************************************************)
(* on_draw: the tiling loop.                                               *)
(***************************************************************************)
\* Python's a % b for b > 0: the remainder of floor division, in [0, b)
PyMod(a, b) == a - b * (a \div b)

\* MUTANT of tile_start: the first copy starts at the remainder itself
tile_start_at_remainder(o, w) == PyMod(o, w)

\* start_x = self.scroll_x % total_w - total_w
tile_start(o, w) == PyMod(o, w) - w

\* "if total_w > 0": the loop is entered at start_x, else nothing is drawn
tile_begin ==
    /\ tile_pc = "layout"
    /\ IF tile_total > 0
         THEN tile_x' = tile_start(tile_scroll, tile_total) /\ tile_pc' = "loop"
         ELSE tile_x' = tile_x /\ tile_pc' = "done"
    /\ UNCHANGED << tile_scroll, tile_total, tile_drawn >>

\* one pass of "while x < self.screen_width": draw a copy at x, advance
tile_draw ==
    /\ tile_pc = "loop"
    /\ tile_x < ScreenWidth
    /\ tile_drawn' = Append(tile_drawn, tile_x)
    /\ tile_x' = tile_x + tile_total
    /\ UNCHANGED << tile_scroll, tile_total, tile_pc >>

\* the loop condition fails: on_draw returns
tile_end ==
    /\ tile_pc = "loop"
    /\ tile_x >= ScreenWidth
    /\ tile_pc' = "done"
    /\ UNCHANGED << tile_scroll, tile_total, tile_x, tile_drawn >>


(***************************************************************************)
(* One quote from _fetch_one to _draw_items.                               *)
(***************************************************************************)
RECURSIVE SeqsUpTo(_, _)
SeqsUpTo(S, n) ==
    IF n = 0 THEN { << >> }
    ELSE LET shorter == SeqsUpTo(S, n - 1)
         IN  shorter \cup { Append(q, x) : q \in shorter, x \in S }

\* every response _fetch_one is tried on
QuoteResponses ==
    { [status |-> 429, closes |-> << >>], [status |-> 500, closes |-> << >>] }
       \cup { [status |-> 200, closes |-> c] :
                c \in SeqsUpTo({NULL} \cup 0..MaxClose, MaxCloses) }

\* _draw_items: COLOR_UP or COLOR_DOWN by q["up"], COLOR_FLAT if the change
\* is 0
draw_color(q) ==
    LET color == IF q.up THEN "COLOR_UP" ELSE "COLOR_DOWN"
    IN  IF q.change = 0 THEN "COLOR_FLAT" ELSE color

\* _draw_items and _measure_content: the arrow of the price text
draw_arrow(q) == IF q.up THEN "arrow_up" ELSE "arrow_down"

quote_fetch ==
    /\ q_pc = "input"
    /\ q_result' = fetch_one("AAPL", q_resp)
    /\ q_pc' = IF q_result'.tag = "quote" THEN "fetched" ELSE "skipped"
    /\ UNCHANGED << q_resp, q_color, q_arrow >>

quote_draw ==
    /\ q_pc = "fetched"
    /\ q_color' = draw_color(q_result.quote)
    /\ q_arrow' = draw_arrow(q_result.quote)
    /\ q_pc' = "drawn"
    /\ UNCHANGED << q_resp, q_result >>

(***************************************************************************)
(* Config.__init__ and Config.load.                                        *)
(***************************************************************************)
\* the attributes __init__ sets from DEFAULTS and save() writes
Settings ==
    { "symbols", "ticker_font_size", "scroll_speed", "fps", "item_gap", "bg_alpha",
      "update_interval_min" }

Properties == { "price_font_size", "bar_height" }
Methods == { "load", "save" }

\* a key that names nothing on a Config
OtherKeys == { "theme" }

Names == Settings \cup Properties \cup Methods \cup OtherKeys

\* a Config as __init__ leaves it before load(): the settings at their
\* defaults, the properties and methods of the class
InitialAttr ==
    [n \in Names |->
        IF n \in Settings THEN [kind |-> "default", val |-> 0]
        ELSE IF n \in Properties THEN [kind |-> "property", val |-> 0]
        ELSE IF n \in Methods THEN [kind |-> "method", val |-> 0]
        ELSE [kind |-> "absent", val |-> 0]]

Items == { [key |-> k, val |-> v] : k \in Names, v \in 1..MaxValue }

DistinctKeys(items) ==
    \A i, j \in 1..Len(items) : i # j => items[i].key # items[j].key

\* the config file: not there, not JSON, JSON that is no object, or an
\* object (its keys in file order)
ConfigFiles ==
    { [kind |-> "missing", items |-> << >>],
      [kind |-> "malformed", items |-> << >>],
      [kind |-> "array", items |-> << >>] }
       \cup { [kind |-> "object", items |-> i] :
                i \in { x \in SeqsUpTo(Items, MaxKeys) : DistinctKeys(x) } }

\* hasattr(self, k)
hasattr(k) == cfg_attr[k].kind # "absent"

\* load up to the loop: open and jsonlib.load; FileNotFoundError and
\* JSONDecodeError are passed over, d.items() of a non-dict raises
load_open ==
    /\ cfg_pc = "init"
    /\ CASE cfg_file.kind \in {"missing", "malformed"} ->
               cfg_pc' = "loaded" /\ UNCHANGED cfg_todo
         [] cfg_file.kind = "array" ->
               cfg_pc' = "raised" /\ UNCHANGED cfg_todo
         [] cfg_file.kind = "object" ->
               cfg_pc' = "items" /\ cfg_todo' = cfg_file.items
    /\ UNCHANGED << cfg_file, cfg_attr >>

\* one pass of "for k, v in d.items()": setattr if hasattr; setattr on a
\* property without setter raises AttributeError, which load does not catch
load_item ==
    /\ cfg_pc = "items"
    /\ cfg_todo # << >>
    /\ LET k == Head(cfg_todo).key
           v == Head(cfg_todo).val
       IN  IF ~hasattr(k)
             THEN /\ cfg_todo' = Tail(cfg_todo)
                  /\ UNCHANGED << cfg_attr, cfg_pc >>
           ELSE IF cfg_attr[k].kind = "property"
             THEN /\ cfg_pc' = "raised"
                  /\ UNCHANGED << cfg_attr, cfg_todo >>
           ELSE /\ cfg_attr' = [cfg_attr EXCEPT ![k] = [kind |-> "value", val |-> v]]
                /\ cfg_todo' = Tail(cfg_todo)
                /\ UNCHANGED cfg_pc
    /\ UNCHANGED cfg_file

\* the loop is through: load returns
load_return ==
    /\ cfg_pc = "items"
    /\ cfg_todo = << >>
    /\ cfg_pc' = "loaded"
    /\ UNCHANGED << cfg_file, cfg_attr, cfg_todo >>


(***************************************************************************)
(* TickerWindow: its timers, apply_config and the settings menu.           *)
(***************************************************************************)
\* the "Font Size" and "Refresh Interval" menus, and frame rates a config
\* file can set
FontSizes == {16, 20, 28, 32}
Intervals == {5, 15, 30, 60}
FrameRates == {25, 30, 40}

\* GLib.source_remove(id)
source_remove(S, id) == { s \in S : s.id # id }

\* GLib.timeout_add / timeout_add_seconds / idle_add: a new source, with the
\* next id
source_add(S, id, kind, period) == S \cup { [id |-> id, kind |-> kind, period |-> period] }

\* MUTANT of start_timers: the old animation source is left attached
start_timers_leaky(S, a, r, n, rate, interval) ==
    LET S2 == source_add(S, n, "anim", 1000 \div rate)
        S3 == IF r # 0 THEN source_remove(S2, r) ELSE S2
        S4 == source_add(S3, n + 1, "refresh", interval * 60)
    IN  [sources |-> S4, anim |-> n, refresh |-> n + 1, next |-> n + 2]

\* _start_timers: remove the animation source if there is one and add a new
\* one, then the same for the refresh source
start_timers(S, a, r, n, rate, interval) ==
    LET S1 == IF a # 0 THEN source_remove(S, a) ELSE S
        S2 == source_add(S1, n, "anim", 1000 \div rate)
        S3 == IF r # 0 THEN source_remove(S2, r) ELSE S2
        S4 == source_add(S3, n + 1, "refresh", interval * 60)
    IN  [sources |-> S4, anim |-> n, refresh |-> n + 1, next |-> n + 2]

\* apply_config with the configuration as the menu handler left it:
\* geometry, _start_timers, cfg.save(), resize, queue_draw
apply_config(rate, interval) ==
    /\ next_source + 1 <= MaxSourceId
    /\ LET t == start_timers(sources, anim_source, refresh_source, next_source,
                             rate, interval)
       IN  /\ sources' = t.sources
           /\ anim_source' = t.anim
           /\ refresh_source' = t.refresh
           /\ next_source' = t.next

\* TickerWindow.__init__: geometry, _start_timers, idle_add(_initial_fetch)
window_init ==
    /\ win_pc = "new"
    /\ next_source + 2 <= MaxSourceId
    /\ LET t == start_timers(sources, anim_source, refresh_source, next_source,
                             fps, update_interval_min)
       IN  /\ sources' = source_add(t.sources, t.next, "idle", 0)
           /\ anim_source' = t.anim
           /\ refresh_source' = t.refresh
           /\ next_source' = t.next + 1
    /\ win_pc' = "running"
    /\ UNCHANGED << ticker_font_size, update_interval_min, fps >>
    /\ UNCHANGED << fetch_vars, scroll_vars >>

\* _on_font_size for the item that became active
on_font_size(size) ==
    /\ win_pc = "running"
    /\ size # ticker_font_size
    /\ ticker_font_size' = size
    /\ apply_config(fps, update_interval_min)
    /\ UNCHANGED << update_interval_min, fps, win_pc >>
    /\ UNCHANGED << fetch_vars, scroll_vars >>

\* _on_interval for the item that became active
on_interval(val) ==
    /\ win_pc = "running"
    /\ val # update_interval_min
    /\ update_interval_min' = val
    /\ apply_config(fps, val)
    /\ UNCHANGED << ticker_font_size, fps, win_pc >>
    /\ UNCHANGED << fetch_vars, scroll_vars >>

\* _on_edit_symbols answered OK with a non-empty list: the new symbols,
\* apply_config, and a fetch thread
on_edit_symbols(symbols, t) ==
    /\ win_pc = "running"
    /\ cfg_symbols' = symbols
    /\ apply_config(fps, update_interval_min)
    /\ pc[t] = "idle"
    /\ pc' = [pc EXCEPT ![t] = "request"]
    /\ attempt' = [attempt EXCEPT ![t] = 1]
    /\ idx' = [idx EXCEPT ![t] = 1]
    /\ new_quotes' = [new_quotes EXCEPT ![t] = << >>]
    /\ exc' = [exc EXCEPT ![t] = ""]
    /\ UNCHANGED << upstream, quotes, lock, ui_pc, ui_quotes >>
    /\ UNCHANGED << ticker_font_size, update_interval_min, fps, win_pc >>
    /\ UNCHANGED scroll_vars

\* the main loop runs a due animation source: on_tick, which returns True,
\* so the source stays
dispatch_anim ==
    /\ \E s \in sources : s.kind = "anim"
    /\ on_tick
    /\ UNCHANGED timer_vars

\* the main loop runs a due refresh source: _periodic_fetch starts a fetch
\* thread and returns True, so the source stays
dispatch_refresh(t) ==
    /\ \E s \in sources : s.kind = "refresh"
    /\ begin_fetch(t)
    /\ UNCHANGED timer_vars
    /\ UNCHANGED scroll_vars

\* the main loop runs the idle source of __init__: _initial_fetch starts a
\* fetch thread and returns False, so the source is removed
dispatch_idle(t) ==
    /\ \E s \in sources :
          /\ s.kind = "idle"
          /\ sources' = source_remove(sources, s.id)
    /\ begin_fetch(t)
    /\ UNCHANGED << anim_source, refresh_source, next_source, ticker_font_size,
                    update_interval_min, fps, win_pc >>
    /\ UNCHANGED scroll_vars

(***************************************************************************)
(* History of the cycle that thread t runs, read off each of its steps.    *)
(***************************************************************************)
CycleBegins(t) == pc[t] = "idle" /\ pc'[t] = "request"

\* the attempt that ends with this step, if one does: how it ended, the
\* exception's text, and the quotes _fetch_all held at that moment
AttemptOutcome(t) ==
    IF pc[t] = "request" /\ idx[t] <= Len(cfg_symbols) /\ exc'[t] # ""
      THEN << [result |-> "raised", exc |-> exc'[t], kept |-> Len(new_quotes[t])] >>
    ELSE IF pc[t] = "request" /\ idx[t] > Len(cfg_symbols)
      THEN << [result |-> "returned", exc |-> "", kept |-> Len(new_quotes[t])] >>
    ELSE << >>

AttemptBegins(t) ==
    /\ pc'[t] = "request"
    /\ idx'[t] = 1
    /\ pc[t] # "request" \/ idx[t] # 1

SymbolSkipped(t) ==
    /\ pc[t] = "request"
    /\ pc'[t] = "request"
    /\ idx'[t] > idx[t]
    /\ new_quotes'[t] = new_quotes[t]

record_history(t) ==
    /\ before' = IF CycleBegins(t) THEN quotes ELSE before
    /\ waits' = IF CycleBegins(t) THEN 0
                ELSE IF pc[t] # "retry_sleep" /\ pc'[t] = "retry_sleep" THEN waits + 1
                ELSE waits
    /\ tries' = IF CycleBegins(t) THEN << >> ELSE tries \o AttemptOutcome(t)
    /\ dropped' = IF AttemptBegins(t) THEN {}
                  ELSE IF SymbolSkipped(t) THEN dropped \cup {cfg_symbols[idx[t]]}
                  ELSE dropped

(***************************************************************************)
(* Specifications.                                                         *)
(***************************************************************************)
FetchInit ==
    /\ quotes = << >>
    /\ lock = {}
    /\ pc = [t \in Threads |-> "idle"]
    /\ attempt = [t \in Threads |-> 0]
    /\ idx = [t \in Threads |-> 1]
    /\ new_quotes = [t \in Threads |-> << >>]
    /\ exc = [t \in Threads |-> ""]
    /\ ui_pc = "idle"
    /\ ui_quotes = << >>

HistInit ==
    /\ before = << >>
    /\ waits = 0
    /\ tries = << >>
    /\ dropped = {}

\* TickerWindow.__init__, after Config() took scroll_speed and item_gap from
\* the defaults or the config file
ScrollInit ==
    /\ scroll_x = 0
    /\ content_width = 0
    /\ scroll_speed \in ScrollSpeeds
    /\ item_gap \in ItemGaps
    /\ last_ui = "init"

\* the window up with the default configuration, its callbacks left out
TimerIdle ==
    /\ sources = { [id |-> 1, kind |-> "anim", period |-> 25],
                   [id |-> 2, kind |-> "refresh", period |-> 900] }
    /\ anim_source = 1
    /\ refresh_source = 2
    /\ next_source = 3
    /\ ticker_font_size = 20
    /\ update_interval_min = 15
    /\ fps = 40
    /\ win_pc = "running"

\* no response under study
QuoteIdle ==
    /\ q_resp = [status |-> 200, closes |-> << >>]
    /\ q_result = [tag |-> "none", quote |-> NoQuote]
    /\ q_color = ""
    /\ q_arrow = ""
    /\ q_pc = "skipped"

\* Config() done, with no config file
ConfigIdle ==
    /\ cfg_file = [kind |-> "missing", items |-> << >>]
    /\ cfg_attr = InitialAttr
    /\ cfg_todo = << >>
    /\ cfg_pc = "loaded"

\* the tiling loop not running
TileIdle ==
    /\ tile_scroll = 0
    /\ tile_total = 0
    /\ tile_x = 0
    /\ tile_drawn = << >>
    /\ tile_pc = "done"

\* the window's animation left out: nothing ticks and nothing is drawn
ScrollIdle ==
    /\ scroll_x = 0
    /\ content_width = 0
    /\ scroll_speed = 2
    /\ item_gap = 2
    /\ last_ui = "init"

Init ==
    /\ upstream = FewResponses
    /\ cfg_symbols = DefaultSymbols
    /\ FetchInit
    /\ HistInit
    /\ ScrollIdle
    /\ TileIdle
    /\ QuoteIdle
    /\ ConfigIdle
    /\ TimerIdle

\* the fetch threads against the render pass's reads
Next ==
    \/ \E t \in Threads : fetch_thread(t) /\ UNCHANGED << hist_vars, scroll_vars, tile_vars, quote_vars, config_vars, timer_vars >>
    \/ get_quotes_lock /\ UNCHANGED << hist_vars, scroll_vars, tile_vars, quote_vars, config_vars, timer_vars >>
    \/ get_quotes_copy /\ UNCHANGED << hist_vars, scroll_vars, tile_vars, quote_vars, config_vars, timer_vars >>

Spec == Init /\ [][Next]_vars

\* one fetch thread running cycle after cycle, with the cycle's history
NextCycle ==
    fetch_thread(1) /\ record_history(1) /\ UNCHANGED << scroll_vars, tile_vars, quote_vars, config_vars, timer_vars >>

InitCycle ==
    /\ upstream = CycleResponses
    /\ cfg_symbols \in SymbolLists
    /\ FetchInit
    /\ HistInit
    /\ ScrollIdle
    /\ TileIdle
    /\ QuoteIdle
    /\ ConfigIdle
    /\ TimerIdle

SpecCycle == InitCycle /\ [][NextCycle]_vars


\* the animation and the render pass beside one fetch thread
InitScroll ==
    /\ upstream = FewResponses
    /\ cfg_symbols = DefaultSymbols
    /\ FetchInit
    /\ HistInit
    /\ ScrollInit
    /\ TileIdle
    /\ QuoteIdle
    /\ ConfigIdle
    /\ TimerIdle

NextScroll ==
    \/ fetch_thread(1) /\ UNCHANGED << hist_vars, scroll_vars, tile_vars, quote_vars, config_vars, timer_vars >>
    \/ on_tick /\ UNCHANGED << hist_vars, tile_vars, quote_vars, config_vars, timer_vars >>
    \/ on_draw /\ UNCHANGED << hist_vars, tile_vars, quote_vars, config_vars, timer_vars >>
    \/ \E val \in ScrollSpeeds : on_scroll_speed(val) /\ UNCHANGED << hist_vars, tile_vars, quote_vars, config_vars, timer_vars >>

SpecScroll == InitScroll /\ [][NextScroll]_vars

\* the tiling loop on every offset and every total width
InitTile ==
    /\ upstream = FewResponses
    /\ cfg_symbols = DefaultSymbols
    /\ FetchInit
    /\ HistInit
    /\ ScrollIdle
    /\ tile_scroll \in -MaxOffset..MaxOffset
    /\ tile_total \in 0..(ScreenWidth + 1)
    /\ tile_x = 0
    /\ tile_drawn = << >>
    /\ tile_pc = "layout"
    /\ QuoteIdle
    /\ ConfigIdle
    /\ TimerIdle

NextTile ==
    \/ tile_begin /\ UNCHANGED << fetch_vars, hist_vars, scroll_vars, quote_vars, config_vars, timer_vars >>
    \/ tile_draw /\ UNCHANGED << fetch_vars, hist_vars, scroll_vars, quote_vars, config_vars, timer_vars >>
    \/ tile_end /\ UNCHANGED << fetch_vars, hist_vars, scroll_vars, quote_vars, config_vars, timer_vars >>

SpecTile == InitTile /\ [][NextTile]_vars

\* every response through _fetch_one and, if it gives a quote, _draw_items
InitQuote ==
    /\ upstream = FewResponses
    /\ cfg_symbols = DefaultSymbols
    /\ FetchInit
    /\ HistInit
    /\ ScrollIdle
    /\ TileIdle
    /\ ConfigIdle
    /\ TimerIdle
    /\ q_resp \in QuoteResponses
    /\ q_result = [tag |-> "none", quote |-> NoQuote]
    /\ q_color = ""
    /\ q_arrow = ""
    /\ q_pc = "input"

NextQuote ==
    \/ quote_fetch /\ UNCHANGED << fetch_vars, hist_vars, scroll_vars, tile_vars, config_vars, timer_vars >>
    \/ quote_draw /\ UNCHANGED << fetch_vars, hist_vars, scroll_vars, tile_vars, config_vars, timer_vars >>

SpecQuote == InitQuote /\ [][NextQuote]_vars

\* Config() on every config file
InitConfig ==
    /\ upstream = FewResponses
    /\ cfg_symbols = DefaultSymbols
    /\ FetchInit
    /\ HistInit
    /\ ScrollIdle
    /\ TileIdle
    /\ QuoteIdle
    /\ TimerIdle
    /\ cfg_file \in ConfigFiles
    /\ cfg_attr = InitialAttr
    /\ cfg_todo = << >>
    /\ cfg_pc = "init"

NextConfig ==
    \/ load_open /\ UNCHANGED << fetch_vars, hist_vars, scroll_vars, tile_vars, quote_vars, timer_vars >>
    \/ load_item /\ UNCHANGED << fetch_vars, hist_vars, scroll_vars, tile_vars, quote_vars, timer_vars >>
    \/ load_return /\ UNCHANGED << fetch_vars, hist_vars, scroll_vars, tile_vars, quote_vars, timer_vars >>

SpecConfig == InitConfig /\ [][NextConfig]_vars

\* the main loop's callbacks from window creation on; the fetch threads
\* they start are followed in Spec
InitTimers ==
    /\ upstream = FewResponses
    /\ cfg_symbols = DefaultSymbols
    /\ FetchInit
    /\ HistInit
    /\ ScrollIdle
    /\ TileIdle
    /\ QuoteIdle
    /\ ConfigIdle
    /\ sources = {}
    /\ anim_source = 0
    /\ refresh_source = 0
    /\ next_source = 1
    /\ ticker_font_size \in FontSizes
    /\ update_interval_min \in Intervals
    /\ fps \in FrameRates
    /\ win_pc = "new"

NextTimers ==
    \/ window_init /\ UNCHANGED << hist_vars, tile_vars, quote_vars, config_vars >>
    \/ \E size \in FontSizes :
          on_font_size(size) /\ UNCHANGED << hist_vars, tile_vars, quote_vars, config_vars >>
    \/ \E val \in Intervals :
          on_interval(val) /\ UNCHANGED << hist_vars, tile_vars, quote_vars, config_vars >>
    \/ \E symbols \in SymbolLists, t \in Threads :
          on_edit_symbols(symbols, t)
             /\ UNCHANGED << hist_vars, tile_vars, quote_vars, config_vars >>
    \/ dispatch_anim /\ UNCHANGED << hist_vars, tile_vars, quote_vars, config_vars >>
    \/ \E t \in Threads :
          dispatch_refresh(t) /\ UNCHANGED << hist_vars, tile_vars, quote_vars, config_vars >>
    \/ \E t \in Threads :
          dispatch_idle(t) /\ UNCHANGED << hist_vars, tile_vars, quote_vars, config_vars >>

SpecTimers == InitTimers /\ [][NextTimers]_vars

\* fetch cycles one after another beside the render passes
InitPublished ==
    /\ upstream = FewResponses
    /\ cfg_symbols = DefaultSymbols
    /\ FetchInit
    /\ HistInit
    /\ ScrollInit
    /\ TileIdle
    /\ QuoteIdle
    /\ ConfigIdle
    /\ TimerIdle

NextPublished ==
    \/ fetch_thread(1) /\ UNCHANGED << hist_vars, scroll_vars, tile_vars, quote_vars, config_vars, timer_vars >>
    \/ on_draw /\ UNCHANGED << hist_vars, tile_vars, quote_vars, config_vars, timer_vars >>

SpecPublished == InitPublished /\ [][NextPublished]_vars

\* the UI loop (ticks, and the snapshot copy of a render) beside the fetch
\* threads, with one configured symbol and an upstream that rate-limits or
\* answers
LiveResponses ==
    { [status |-> 429, closes |-> << >>],
      [status |-> 200, closes |-> << 1, NULL, 2 >>] }

InitLive ==
    /\ upstream = LiveResponses
    /\ cfg_symbols = << "AAPL" >>
    /\ FetchInit
    /\ HistInit
    /\ ScrollIdle
    /\ TileIdle
    /\ QuoteIdle
    /\ ConfigIdle
    /\ TimerIdle

NotFetch == << hist_vars, scroll_vars, tile_vars, quote_vars, config_vars, timer_vars >>

NotFetchNorScroll == << hist_vars, tile_vars, quote_vars, config_vars, timer_vars >>

LiveThread(t) == fetch_thread(t) /\ UNCHANGED NotFetch

LivePublish(t) == fetch_publish(t) /\ UNCHANGED NotFetch

LiveLock == get_quotes_lock /\ UNCHANGED NotFetch

LiveCopy == get_quotes_copy /\ UNCHANGED NotFetch

LiveTick == on_tick /\ UNCHANGED NotFetchNorScroll

NextLive ==
    \/ \E t \in Threads : LiveThread(t)
    \/ LiveLock
    \/ LiveCopy
    \/ LiveTick

\* a thread that holds the lock is runnable and gets to run
FairLive ==
    /\ \A t \in Threads : WF_vars(LivePublish(t))
    /\ WF_vars(LiveCopy)

SpecLive == InitLive /\ [][NextLive]_vars /\ FairLive

(***************************************************************************)
(* Claims about the fetch cycle (SpecCycle: one thread, with history).     *)
(***************************************************************************)
SymbolsOf(qs) == [i \in 1..Len(qs) |-> qs[i].symbol]

\* the configured symbols that the current attempt did not skip, in order
Remaining == SelectSeq(cfg_symbols, LAMBDA s : s \notin dropped)

Raised(e) == e.result = "raised"
Empty(e) == e.result = "returned" /\ e.kept = 0

\* C1: when all MAX_RETRIES attempts of a cycle have failed, the snapshot is
\* the one the cycle started with
C1_FailedCycleKeepsSnapshot ==
    pc[1] = "failed" => quotes = before

\* C1 witness: a cycle that started from a published snapshot has failed
\* three times, by a 429 and by another exception
C1_Witness ==
    /\ pc[1] = "failed"
    /\ before # << >>
    /\ Len(tries) = MAX_RETRIES
    /\ \E i, j \in 1..Len(tries) :
          tries[i].exc = "rate limited (429)" /\ tries[j].exc = "http error"

\* C2, as claimed: at most MAX_RETRIES attempts; one retry delay after every
\* attempt that did not succeed and was followed by another, none after the
\* last; the cycle stops at the first success; and after 429, 429, success
\* the snapshot is the third attempt's list with two waits taken
C2_RetryPolicyAsClaimed ==
    /\ Len(tries) <= MAX_RETRIES
    /\ pc[1] \in {"request", "acquire", "assign", "done", "failed"}
          => waits = attempt[1] - 1
    /\ \A i \in 1..Len(tries) :
          (tries[i].result = "returned" /\ tries[i].kept > 0) => i = Len(tries)
    /\ ( /\ pc[1] = "done"
         /\ Len(tries) = 3
         /\ tries[1].exc = "rate limited (429)"
         /\ tries[2].exc = "rate limited (429)" )
          => (quotes = new_quotes[1] /\ Len(quotes) = tries[3].kept /\ waits = 2)

\* C4, as claimed: an attempt whose requests all succeeded ends the cycle as
\* a success, however many symbols it dropped, and publishes the rest
C4_DropNeverFailsAsClaimed ==
    /\ \A i \in 1..Len(tries) :
          tries[i].result = "returned" => (i = Len(tries) /\ pc[1] # "failed")
    /\ pc[1] = "done" => SymbolsOf(quotes) = Remaining

\* C4, amended: an attempt whose requests all succeeded and that kept at
\* least one symbol ends the cycle as a success on that attempt and publishes
\* exactly the symbols it did not drop, in configured order
C4_DroppedSymbolsLeftOut ==
    /\ \A i \in 1..Len(tries) :
          (tries[i].result = "returned" /\ tries[i].kept > 0)
             => (i = Len(tries) /\ pc[1] \in {"acquire", "assign", "done", "idle"})
    /\ pc[1] \in {"acquire", "assign"} => SymbolsOf(new_quotes[1]) = Remaining
    /\ pc[1] = "done" => (quotes # << >> /\ SymbolsOf(quotes) = Remaining)

\* C4 witness: a first attempt dropped the first of two symbols and the
\* cycle published the other one
C4_Witness ==
    /\ pc[1] = "done"
    /\ Len(cfg_symbols) = 2
    /\ dropped = {cfg_symbols[1]}
    /\ Len(tries) = 1
    /\ SymbolsOf(quotes) = << cfg_symbols[2] >>

(***************************************************************************)
(* Claims about the snapshot under concurrent fetches (Spec).              *)
(***************************************************************************)
\* C3: the snapshot only ever changes, under the lock, to the whole list of
\* a thread whose _fetch_all has returned, and get_quotes only ever returns,
\* under the lock, the snapshot as it stands: a reader sees the empty start
\* or one complete batch, and the last writer's list stays
C3_ReadersSeeWholeBatches ==
    [][ /\ quotes' # quotes =>
             \E t \in Threads :
                /\ pc[t] = "assign"
                /\ lock = {t}
                /\ idx[t] > Len(cfg_symbols)
                /\ new_quotes[t] # << >>
                /\ quotes' = new_quotes[t]
        /\ ui_quotes' # ui_quotes =>
             /\ lock = {UiThread}
             /\ quotes' = quotes
             /\ ui_quotes' = quotes
        /\ Cardinality(lock') <= 1 ]_vars

\* C3 witness: the render pass holds one batch while the snapshot already
\* holds another thread's newer one and a third batch is half built
C3_Witness ==
    /\ ui_quotes # << >>
    /\ quotes # << >>
    /\ ui_quotes # quotes
    /\ \E t \in Threads :
          pc[t] = "request" /\ idx[t] = 2 /\ Len(new_quotes[t]) = 1
    /\ \E t \in Threads : pc[t] = "acquire"


(***************************************************************************)
(* Claims about the scroll offset (SpecScroll).                            *)
(***************************************************************************)
\* C5, as claimed: after a tick taken while content_width > 0 the offset
\* lies in [-content_width, 0)
C5_OffsetRangeAsClaimed ==
    (last_ui \in {"tick", "wrap"} /\ content_width > 0)
       => (-content_width <= scroll_x /\ scroll_x < 0)

\* C5, amended: a tick taken while content_width > 0 leaves the offset at
\* most 0, and above -content_width exactly when the offset before it was
\* above scroll_speed - 2 * content_width
C5_OffsetAfterTick ==
    [][ (on_tick /\ content_width > 0) =>
           /\ scroll_x' <= 0
           /\ (scroll_x' > -content_width)
                 <=> (scroll_x - scroll_speed > -2 * content_width) ]_vars

\* C5 witness: a tick has wrapped the offset from exactly -content_width to 0
C5_Witness ==
    /\ last_ui = "wrap"
    /\ content_width > 0
    /\ scroll_x = 0


(***************************************************************************)
(* Claims about the tiling loop (SpecTile).                                *)
(***************************************************************************)
Covered(p) ==
    \E i \in 1..Len(tile_drawn) : tile_drawn[i] <= p /\ p < tile_drawn[i] + tile_total

\* C6: for every offset and every total width in (0, screen_width], the
\* loop starts left of 0, places its copies edge to edge, stops after a
\* bounded number of copies, and once it has stopped the copies cover every
\* point of [0, screen_width)
C6_TilingCovers ==
    (tile_total > 0 /\ tile_total <= ScreenWidth) =>
       /\ tile_pc = "loop" => tile_x <= ScreenWidth + tile_total - 1
       /\ (Len(tile_drawn) - 1) * tile_total < ScreenWidth + tile_total
       /\ \A i \in 1..Len(tile_drawn) - 1 : tile_drawn[i + 1] = tile_drawn[i] + tile_total
       /\ tile_drawn # << >> => tile_drawn[1] <= 0
       /\ tile_pc # "done" => ENABLED NextTile
       /\ tile_pc = "done" => \A p \in 0..(ScreenWidth - 1) : Covered(p)

\* C6 witness: the loop has finished for an offset below -total_w, with
\* more than two copies drawn
C6_Witness ==
    /\ tile_pc = "done"
    /\ tile_total > 0
    /\ tile_total <= ScreenWidth
    /\ tile_scroll < -tile_total
    /\ PyMod(tile_scroll, tile_total) # 0
    /\ Len(tile_drawn) > 2


(***************************************************************************)
(* Claims about one quote (SpecQuote).                                     *)
(***************************************************************************)
Direction(change) ==
    IF change = 0 THEN "flat" ELSE IF change > 0 THEN "up" ELSE "down"

\* the direction each of the three carriers shows
FlagDirection(q) == IF q.up THEN "up" ELSE "down"
ColorDirection(c) ==
    IF c = "COLOR_FLAT" THEN "flat" ELSE IF c = "COLOR_UP" THEN "up" ELSE "down"
ArrowDirection(a) == IF a = "arrow_up" THEN "up" ELSE "down"

\* C7, as claimed: the stored flag, the colour and the arrow of a drawn
\* quote all show the direction of its change: flat for 0, up above 0, down
\* below 0
C7_FlatAsClaimed ==
    q_pc = "drawn" =>
       LET q == q_result.quote IN
       /\ FlagDirection(q) = Direction(q.change)
       /\ ColorDirection(q_color) = Direction(q.change)
       /\ ArrowDirection(q_arrow) = Direction(q.change)

(***************************************************************************)
(* Claims about Config.load (SpecConfig).                                  *)
(***************************************************************************)
KeysOf(items) == { items[i].key : i \in 1..Len(items) }
ValueOf(items, k) == (CHOOSE i \in 1..Len(items) : items[i].key = k)

\* C8, as claimed: with no file, a file that is not JSON, or a JSON object,
\* load never raises; after it every name that is not one of the seven
\* settings is what it was, and each setting holds the file's value if the
\* file is an object that has its key, else its default
C8_LoadAsClaimed ==
    cfg_file.kind \in {"missing", "malformed", "object"} =>
    /\ cfg_pc # "raised"
    /\ cfg_pc = "loaded" =>
          /\ \A n \in Names \ Settings : cfg_attr[n] = InitialAttr[n]
          /\ \A n \in Settings :
                cfg_attr[n] =
                   IF cfg_file.kind = "object" /\ n \in KeysOf(cfg_file.items)
                     THEN [kind |-> "value",
                           val |-> cfg_file.items[ValueOf(cfg_file.items, n)].val]
                     ELSE InitialAttr[n]


(***************************************************************************)
(* Claims about the timers (SpecTimers).                                   *)
(***************************************************************************)
SourcesOf(kind) == { s \in sources : s.kind = kind }

\* C9: once the window exists, exactly one animation source and exactly one
\* refresh source are attached; they are the ones the window holds the ids
\* of, and their periods are 1000 // fps ms and update_interval_min * 60 s
\* of the current configuration
C9_OneTimerEach ==
    win_pc = "running" =>
       /\ SourcesOf("anim") =
            { [id |-> anim_source, kind |-> "anim", period |-> 1000 \div fps] }
       /\ SourcesOf("refresh") =
            { [id |-> refresh_source, kind |-> "refresh",
               period |-> update_interval_min * 60] }

\* C9 witness: apply_config has run three times, after a font-size, an
\* interval and a symbol edit, and ticks have been dispatched
C9_Witness ==
    /\ win_pc = "running"
    /\ next_source > 9
    /\ cfg_symbols # DefaultSymbols
    /\ scroll_x < 0


(***************************************************************************)
(* Claims about the liveness of the UI loop (SpecLive).                    *)
(***************************************************************************)
\* a fetch thread holds the lock only for the assignment of the snapshot,
\* never at a request, the delay between symbols or a retry sleep, and can
\* finish the assignment; the UI thread holds it only for the copy
LockOnlyForSwapOrCopy ==
    /\ \A t \in Threads :
          t \in lock => pc[t] = "assign" /\ ENABLED LivePublish(t)
    /\ UiThread \in lock => ui_pc = "copy" /\ ENABLED LiveCopy

\* whatever the fetch threads are at, the UI loop can tick, and can start
\* the copy of a render whenever the lock is free
UiCanStep ==
    /\ ui_pc \in {"idle", "copy"}
    /\ (ui_pc = "idle" /\ scroll_x - scroll_speed >= -MaxScroll) => ENABLED LiveTick
    /\ (ui_pc = "idle" /\ lock = {}) => ENABLED LiveLock

\* C10: the lock is held only for a snapshot swap or copy, the UI loop can
\* always tick and can render whenever the lock is free, and a held lock is
\* always released
C10_UiStaysLive ==
    /\ [](LockOnlyForSwapOrCopy /\ UiCanStep)
    /\ (lock # {}) ~> (lock = {})

\* C10 witness: the UI has ticked while one thread sleeps before a retry
\* after an error and another holds the lock for its swap, with no fetch
\* having succeeded before
C10_Witness ==
    /\ scroll_x < 0
    /\ quotes = << >>
    /\ \E t \in Threads : pc[t] = "retry_sleep" /\ exc[t] # ""
    /\ \E t \in Threads : pc[t] = "assign" /\ t \in lock


(***************************************************************************)
(* Claims about the snapshot once published (SpecPublished).               *)
(***************************************************************************)
\* C11: the snapshot is only ever replaced by a non-empty list, a non-empty
\* snapshot stays non-empty whatever later cycles do, and a render pass over
\* a non-empty snapshot draws the quotes, not the loading text
C11_PublishedStaysPublished ==
    [][ /\ (quotes' # quotes) => (quotes' # << >>)
        /\ (quotes # << >>) => (quotes' # << >>)
        /\ (on_draw /\ quotes # << >>) => (last_ui' = "draw") ]_vars

\* C11 witness: quotes were published, a later cycle has run through all its
\* attempts and failed, and the renderer has drawn the quotes
C11_Witness ==
    /\ quotes # << >>
    /\ pc[1] = "failed"
    /\ attempt[1] = MAX_RETRIES
    /\ last_ui = "draw"
    /\ content_width > 0

====
